---- MODULE Spec2Model ----
(***************************************************************************)
(* Model of streamlit_app.py: the Markdown -> PDF conversion function      *)
(* markdown_to_pdf_bytes and the "Convert to PDF" button handler that      *)
(* calls it.  Every browser session runs the script in a thread of its     *)
(* own, so several conversions can be in flight at once.                   *)
(*                                                                         *)
(* The Markdown parser (markdown.markdown) and the layout engine            *)
(* (xhtml2pdf, pisa.CreatePDF) are third-party libraries: what they answer  *)
(* is chosen freely at every call.  Under SpecFixed their timestamp and     *)
(* metadata fields are held fixed: the answer to an argument is chosen the  *)
(* first time the argument is seen and is the same ever after.              *)
(***************************************************************************)
EXTENDS Integers, Sequences, FiniteSets, TLC

\* ---- bounds of the model -------------------------------------------------
MaxBytes == 2      \* longest document the layout engine writes
MaxErr == 1        \* largest error count the layout engine reports
MaxTexts == 2      \* distinct texts converted while the libraries are held deterministic

Sessions == {"s1", "s2"}
ExceptionKinds == {"ValueError", "RecursionError"}

\* the texts a user types: empty, whitespace only, and words with and without
\* whitespace around them
Inputs ==
    {<<>>, <<" ">>, <<"\n", " ">>, <<"a">>, <<" ", "a", "\n">>, <<"b">>}

\* ---- Python values -------------------------------------------------------
None == [is_none |-> TRUE]

Bytes(b) == [is_none |-> FALSE, value |-> b]

\* str.isspace for the characters of the model
IsSpace(c) == c \in {" ", "\t", "\n"}

RECURSIVE LStrip(_)
LStrip(s) == IF s # <<>> /\ IsSpace(Head(s)) THEN LStrip(Tail(s)) ELSE s

RECURSIVE RStrip(_)
RStrip(s) ==
    IF s # <<>> /\ IsSpace(s[Len(s)]) THEN RStrip(SubSeq(s, 1, Len(s) - 1)) ELSE s

\* str.strip()
Strip(s) == RStrip(LStrip(s))

\* the handler's guard `if not markdown_input.strip()` with the strip forgotten
IsBlankInputUnstripped(s) == s = <<>>

\* `not markdown_input.strip()`: the empty string is the only falsy string
IsBlankInput(s) == Strip(s) = <<>>

\* io.BytesIO: the bytes held and the read/write position
EmptyBuffer == [data |-> <<>>, pos |-> 0]

\* BytesIO.write at the current position: overwrites, then extends
Write(buf, b) ==
    [data |-> SubSeq(buf.data, 1, buf.pos) \o b
                \o SubSeq(buf.data, buf.pos + Len(b) + 1, Len(buf.data)),
     pos |-> buf.pos + Len(b)]

\* BytesIO.seek(n)
Seek(buf, n) == [buf EXCEPT !.pos = n]

\* BytesIO.getvalue(): the whole contents, whatever the position
GetValue(buf) == buf.data

\* `return pdf_buffer.read()` with the seek(0) forgotten: BytesIO.read() gives
\* the bytes from the position to the end
SuccessResultReadNoSeek(buf) ==
    Bytes(SubSeq(buf.data, buf.pos + 1, Len(buf.data)))

\* pdf_buffer.seek(0); return pdf_buffer.getvalue()
SuccessResult(buf) == Bytes(GetValue(Seek(buf, 0)))

\* the error branch handing back what the buffer holds
ErrorResultLeaksBuffer(buf) == Bytes(GetValue(buf))

\* `return None` of the error branch and of the except clause
ErrorResult(buf) == None

\* bool(pdf_bytes) inverted (`if not pdf_bytes`)
TruthyInverted(v) == v.is_none \/ Len(v.value) = 0

\* bool(pdf_bytes) for `bytes | None`: None and b"" are falsy
Truthy(v) == ~v.is_none /\ Len(v.value) > 0

\* ---- the stages of markdown_to_pdf_bytes ----------------------------------
\* the extensions handed to markdown.markdown
Extensions == <<"extra", "smarty", "fenced_code">>

\* markdown.markdown(markdown_string, extensions=[...]) on plain words: the
\* text is stripped and wrapped in one paragraph; a blank text gives no markup
Markdown(s) ==
    IF Strip(s) = <<>> THEN <<>> ELSE <<"<p>">> \o Strip(s) \o <<"</p>">>

\* the compact stylesheet embedded in the shell
Stylesheet ==
    [page_margin |-> "0.2in", body_font |-> "sans-serif 9pt", line_height |-> "1.2",
     h1 |-> "1.6em center", h2 |-> "1.15em", table |-> "collapse 100%"]

\* html_template.encode('utf-8')
Utf8Encode(text) == [encoding |-> "utf-8", text |-> text]

\* what the parser can answer: the markup, or a raised exception
ParserOutcomes == {"ok"} \cup ExceptionKinds

\* a PDF file begins "%PDF-1."; the model keeps the first bytes of a document
PdfBytes == <<37, 80, 68, 70, 45, 49, 46>>

BytesUpTo(lo, hi) == {SubSeq(PdfBytes, 1, k) : k \in lo..hi}

\* what the layout engine can do with its destination: write a whole document
\* (never an empty one), leave the position behind it or seek back to the
\* start, and report its error count; or raise, having written any part
EngineOutcomes ==
    {[raised |-> FALSE, kind |-> "", written |-> w, rewind |-> r, err |-> e] :
        w \in BytesUpTo(1, MaxBytes), r \in BOOLEAN, e \in 0..MaxErr}
    \cup
    {[raised |-> TRUE, kind |-> k, written |-> w, rewind |-> FALSE, err |-> 0] :
        k \in ExceptionKinds, w \in BytesUpTo(0, MaxBytes)}

\* an `except ValueError` clause
CatchesValueErrorOnly(kind) == kind = "ValueError"

\* `except Exception`: every exception a library raises derives from Exception
Catches(kind) == kind \in ExceptionKinds

\* a parser fault swallowed, the conversion going on with empty markup
NextAfterFaultSwallowed(stage) == IF stage = "Parsing" THEN "Styling" ELSE "Except"

\* a fault raised inside the try block transfers control to the except clause
NextAfterFault(stage) == "Except"

\* the error branch returning without a log line
StatusErrorLogMissing(err) == <<>>

\* logging.error(f"xhtml2pdf Error converting to PDF: {pisa_status.err}")
StatusErrorLog(err) == <<[level |-> "ERROR", msg |-> "xhtml2pdf Error converting to PDF", arg |-> err]>>

\* logging.info("PDF conversion successful (compact styling).")
SuccessLog == <<[level |-> "INFO", msg |-> "PDF conversion successful", arg |-> 0]>>

\* logging.error(f"An unexpected error occurred during PDF conversion: {e}", exc_info=True)
ExceptionLog(kind) ==
    <<[level |-> "ERROR", msg |-> "An unexpected error occurred during PDF conversion", arg |-> kind]>>

\* ---- state ------------------------------------------------------------------
VARIABLES
    markdown_input,   \* per session: the text in the text area
    ui,               \* per session: the elements the latest script run displayed
    pc,               \* per session: the stage of its conversion
    frame,            \* per session: the locals of its call of markdown_to_pdf_bytes
    pdf_bytes,        \* per session: the handler's pdf_bytes
    heap,             \* the BytesIO objects, by identity
    logs,             \* per session: the log lines of its latest script run
    stages,           \* per session: the stages its latest conversion went through
    metadata_fixed,   \* the libraries answer as functions of their argument
    parser_memo,      \* metadata fixed: what the parser answered, by argument
    engine_memo,      \* metadata fixed: what the layout engine did, by argument
    returned          \* metadata fixed: what each text was converted to

vars == <<markdown_input, ui, pc, frame, pdf_bytes, heap, logs, stages, metadata_fixed, parser_memo, engine_memo, returned>>

NoOutcome ==
    [raised |-> FALSE, kind |-> "", written |-> <<>>, rewind |-> FALSE, err |-> 0]

\* the locals, with what the libraries answered in this call (parsed, outcome)
\* and why the call failed (cause)
NoFrame ==
    [markdown_string |-> <<>>, pdf_buffer |-> "", html_content |-> <<>>,
     html_template |-> None, pisa_status |-> None, exc |-> "",
     parsed |-> "", outcome |-> NoOutcome, cause |-> "none"]

\* the shell with a stamp of the moment of the conversion written into it
HtmlTemplateStamped(html_content) ==
    [doctype |-> "html", style |-> Stylesheet, body |-> html_content,
     stamp |-> Cardinality(returned)]

\* html_template = f"""<!DOCTYPE html> ... <style>...</style> ... {html_content} ..."""
HtmlTemplate(html_content) ==
    [doctype |-> "html", style |-> Stylesheet, body |-> html_content]

\* the module-level buffer shared by every call
ModuleLevelBytesIO(h, s) == [id |-> CHOOSE t \in Sessions : TRUE, heap |-> h]

\* pdf_buffer = io.BytesIO(): a new, empty buffer for this call
BytesIO(h, s) == [id |-> s, heap |-> [h EXCEPT ![s] = EmptyBuffer]]

\* CreatePDF called without dest=pdf_buffer: the engine writes to a buffer of its own
PisaWriteNoDest(buf, o) == buf

\* pisa.CreatePDF(..., dest=pdf_buffer): the engine writes, and may seek back
PisaWrite(buf, o) ==
    LET written == Write(buf, o.written)
    IN IF o.rewind THEN Seek(written, 0) ELSE written

Memo(memo, key) == {m \in memo : m.key = key}

\* the answers open to a library for this argument
Choices(memo, key, all) ==
    IF metadata_fixed /\ Memo(memo, key) # {}
    THEN {m.outcome : m \in Memo(memo, key)} ELSE all

Remember(memo, key, o) ==
    IF metadata_fixed THEN memo \cup {[key |-> key, outcome |-> o]} ELSE memo

\* the text converted once more: `again` tells that another text was converted
\* since this one was
Returned(table, text, ret) ==
    IF ~metadata_fixed THEN table
    ELSE {[r EXCEPT !.followed = TRUE] : r \in {r \in table : r.input # text}}
         \cup {[input |-> text, ret |-> ret, followed |-> FALSE,
                again |-> \E r \in table : r.input = text /\ r.followed]}
         \cup {r \in table : r.input = text /\ r.ret # ret}

Start ==
    /\ markdown_input = [s \in Sessions |-> <<>>]
    /\ ui = [s \in Sessions |-> {}]
    /\ pc = [s \in Sessions |-> "Idle"]
    /\ frame = [s \in Sessions |-> NoFrame]
    /\ pdf_bytes = [s \in Sessions |-> None]
    /\ heap = [s \in Sessions |-> EmptyBuffer]
    /\ logs = [s \in Sessions |-> <<>>]
    /\ stages = [s \in Sessions |-> <<>>]
    /\ parser_memo = {}
    /\ engine_memo = {}
    /\ returned = {}

Init == Start /\ metadata_fixed = FALSE

InitFixed == Start /\ metadata_fixed = TRUE

\* a script run begins: nothing of the run before it is displayed any more
NewRun(s) ==
    /\ ui' = [ui EXCEPT ![s] = {}]
    /\ pdf_bytes' = [pdf_bytes EXCEPT ![s] = None]
    /\ logs' = [logs EXCEPT ![s] = <<>>]
    /\ stages' = [stages EXCEPT ![s] = <<>>]

\* the user changes the text: the script reruns with convert_button False
EditInput(s) ==
    /\ pc[s] = "Idle"
    /\ \E t \in Inputs \ {markdown_input[s]} :
          markdown_input' = [markdown_input EXCEPT ![s] = t]
    /\ NewRun(s)
    /\ frame' = [frame EXCEPT ![s] = NoFrame]
    /\ UNCHANGED <<pc, heap, metadata_fixed, parser_memo, engine_memo, returned>>

\* Convert clicked on a blank text: the warning, and no conversion
ClickBlank(s) ==
    /\ pc[s] = "Idle"
    /\ IsBlankInput(markdown_input[s])
    /\ ui' = [ui EXCEPT ![s] = {"warning"}]
    /\ pdf_bytes' = [pdf_bytes EXCEPT ![s] = None]
    /\ logs' = [logs EXCEPT ![s] = <<>>]
    /\ stages' = [stages EXCEPT ![s] = <<>>]
    /\ frame' = [frame EXCEPT ![s] = NoFrame]
    /\ UNCHANGED <<markdown_input, pc, heap, metadata_fixed, parser_memo,
                   engine_memo, returned>>

\* the texts the parser has been given
TextsSeen == {m.key.text : m \in parser_memo}

\* Convert clicked on a text: markdown_to_pdf_bytes(markdown_input) is entered
ClickConvert(s) ==
    /\ pc[s] = "Idle"
    /\ ~IsBlankInput(markdown_input[s])
    /\ Cardinality(TextsSeen \cup {markdown_input[s]}) <= MaxTexts
    /\ LET new == BytesIO(heap, s)
       IN /\ heap' = new.heap
          /\ frame' = [frame EXCEPT ![s] =
                          [NoFrame EXCEPT !.markdown_string = markdown_input[s],
                                          !.pdf_buffer = new.id]]
    /\ pc' = [pc EXCEPT ![s] = "Parsing"]
    /\ NewRun(s)
    /\ UNCHANGED <<markdown_input, metadata_fixed, parser_memo, engine_memo, returned>>

\* html_content = markdown.markdown(markdown_string, extensions=[...])
MarkdownParse(s) ==
    /\ pc[s] = "Parsing"
    /\ LET arg == [text |-> frame[s].markdown_string, extensions |-> Extensions]
       IN \E r \in Choices(parser_memo, arg, ParserOutcomes) :
            /\ parser_memo' = Remember(parser_memo, arg, r)
            /\ IF r = "ok"
               THEN /\ frame' = [frame EXCEPT ![s].parsed = r,
                                              ![s].html_content =
                                     Markdown(frame[s].markdown_string)]
                    /\ pc' = [pc EXCEPT ![s] = "Styling"]
               ELSE /\ frame' = [frame EXCEPT ![s].parsed = r,
                                              ![s].exc = r,
                                              ![s].cause = "parser fault"]
                    /\ pc' = [pc EXCEPT ![s] = NextAfterFault("Parsing")]
    /\ stages' = [stages EXCEPT ![s] = Append(@, "Parsing")]
    /\ UNCHANGED <<markdown_input, ui, pdf_bytes, heap, logs, metadata_fixed, engine_memo, returned>>

\* html_template = f"""...{html_content}..."""
BuildTemplate(s) ==
    /\ pc[s] = "Styling"
    /\ frame' = [frame EXCEPT ![s].html_template =
                    HtmlTemplate(frame[s].html_content)]
    /\ pc' = [pc EXCEPT ![s] = "Rendering"]
    /\ stages' = [stages EXCEPT ![s] = Append(@, "Styling")]
    /\ UNCHANGED <<markdown_input, ui, pdf_bytes, heap, logs, metadata_fixed, parser_memo, engine_memo, returned>>

\* pisa_status = pisa.CreatePDF(html_template.encode('utf-8'), dest=pdf_buffer, encoding='utf-8')
PisaCreatePDF(s) ==
    /\ pc[s] = "Rendering"
    /\ LET arg == Utf8Encode(frame[s].html_template)
       IN \E o \in Choices(engine_memo, arg, EngineOutcomes) :
            /\ engine_memo' = Remember(engine_memo, arg, o)
            /\ heap' = [heap EXCEPT ![frame[s].pdf_buffer] = PisaWrite(@, o)]
            /\ IF o.raised
               THEN /\ frame' = [frame EXCEPT ![s].outcome = o,
                                              ![s].exc = o.kind,
                                              ![s].cause = "engine fault"]
                    /\ pc' = [pc EXCEPT ![s] = NextAfterFault("Rendering")]
               ELSE /\ frame' = [frame EXCEPT ![s].outcome = o,
                                              ![s].pisa_status = [err |-> o.err]]
                    /\ pc' = [pc EXCEPT ![s] = "Checking"]
    /\ stages' = [stages EXCEPT ![s] = Append(@, "Rendering")]
    /\ UNCHANGED <<markdown_input, ui, pdf_bytes, logs, metadata_fixed,
                   parser_memo, returned>>

\* if pisa_status.err: log the error, return None
ReturnError(s) ==
    /\ pc[s] = "Checking"
    /\ frame[s].pisa_status.err # 0
    /\ LET ret == ErrorResult(heap[frame[s].pdf_buffer])
       IN /\ pdf_bytes' = [pdf_bytes EXCEPT ![s] = ret]
          /\ returned' = Returned(returned, frame[s].markdown_string, ret)
    /\ logs' = [logs EXCEPT ![s] = @ \o StatusErrorLog(frame[s].pisa_status.err)]
    /\ stages' = [stages EXCEPT ![s] = Append(@, "Failed")]
    /\ frame' = [frame EXCEPT ![s].cause = "engine error"]
    /\ pc' = [pc EXCEPT ![s] = "Failed"]
    /\ UNCHANGED <<markdown_input, ui, heap, metadata_fixed, parser_memo,
                   engine_memo>>

\* else: log the success, pdf_buffer.seek(0), return pdf_buffer.getvalue()
ReturnBytes(s) ==
    /\ pc[s] = "Checking"
    /\ frame[s].pisa_status.err = 0
    /\ LET ret == SuccessResult(heap[frame[s].pdf_buffer])
       IN /\ pdf_bytes' = [pdf_bytes EXCEPT ![s] = ret]
          /\ returned' = Returned(returned, frame[s].markdown_string, ret)
    /\ logs' = [logs EXCEPT ![s] = @ \o SuccessLog]
    /\ stages' = [stages EXCEPT ![s] = Append(@, "Succeeded")]
    /\ heap' = [heap EXCEPT ![frame[s].pdf_buffer] = Seek(@, 0)]
    /\ pc' = [pc EXCEPT ![s] = "Succeeded"]
    /\ UNCHANGED <<markdown_input, ui, frame, metadata_fixed,
                   parser_memo, engine_memo>>

\* except Exception as e: log the error, return None; an exception the clause
\* does not catch leaves the function
HandleException(s) ==
    /\ pc[s] = "Except"
    /\ IF Catches(frame[s].exc)
       THEN LET ret == ErrorResult(heap[frame[s].pdf_buffer])
            IN /\ pdf_bytes' = [pdf_bytes EXCEPT ![s] = ret]
               /\ returned' = Returned(returned, frame[s].markdown_string, ret)
               /\ logs' = [logs EXCEPT ![s] = @ \o ExceptionLog(frame[s].exc)]
               /\ pc' = [pc EXCEPT ![s] = "Failed"]
       ELSE /\ pc' = [pc EXCEPT ![s] = "Escaped"]
            /\ UNCHANGED <<pdf_bytes, returned, logs>>
    /\ stages' = [stages EXCEPT ![s] = Append(@, "Failed")]
    /\ UNCHANGED <<markdown_input, ui, frame, heap, metadata_fixed,
                   parser_memo, engine_memo>>

\* if pdf_bytes: st.success + st.download_button, else: st.error; an exception
\* that left the function is what Streamlit displays instead.  The call is over:
\* its buffer is garbage
ShowResult(s) ==
    /\ pc[s] \in {"Succeeded", "Failed", "Escaped"}
    /\ ui' = [ui EXCEPT ![s] =
                IF pc[s] = "Escaped" THEN {"exception"}
                ELSE IF Truthy(pdf_bytes[s]) THEN {"success", "download"}
                ELSE {"error"}]
    /\ heap' = [heap EXCEPT ![frame[s].pdf_buffer] = EmptyBuffer]
    /\ frame' = [frame EXCEPT ![s] = NoFrame]
    /\ pc' = [pc EXCEPT ![s] = "Idle"]
    /\ UNCHANGED <<markdown_input, pdf_bytes, logs, stages, metadata_fixed, parser_memo, engine_memo, returned>>

Step(s) ==
    \/ EditInput(s)
    \/ ClickBlank(s)
    \/ ClickConvert(s)
    \/ MarkdownParse(s)
    \/ BuildTemplate(s)
    \/ PisaCreatePDF(s)
    \/ ReturnError(s)
    \/ ReturnBytes(s)
    \/ HandleException(s)
    \/ ShowResult(s)

\* every session runs the script in a thread of its own
Next == \E s \in Sessions : Step(s)

Spec == Init /\ [][Next]_vars

\* one session, the libraries' metadata held fixed
NextFixed == \E s \in {CHOOSE t \in Sessions : TRUE} : Step(s)

SpecFixed == InitFixed /\ [][NextFixed]_vars

\* ---- properties -------------------------------------------------------------
ErrorLines(lg) == {i \in 1..Len(lg) : lg[i].level = "ERROR"}

SuccessLogged(lg) == \E i \in 1..Len(lg) : lg[i] = SuccessLog[1]

\* empty, or nothing but whitespace
WhitespaceOnly(t) == \A i \in 1..Len(t) : IsSpace(t[i])

IsPrefix(a, b) == Len(a) <= Len(b) /\ SubSeq(b, 1, Len(a)) = a

\* C1: no exception leaves markdown_to_pdf_bytes: whatever stage failed, and
\* whether by a raised fault or by the engine's error status, the call has
\* returned, and has returned None
C1_NoExceptionEscapes ==
    \A s \in Sessions :
        /\ pc[s] # "Escaped"
        /\ "exception" \notin ui[s]
        /\ pc[s] = "Failed" =>
              /\ frame[s].cause \in {"parser fault", "engine fault", "engine error"}
              /\ pdf_bytes[s] = None

\* two calls that failed in different ways, a raised fault and an error status,
\* both over with the same None
C1_Witness ==
    \E s, t \in Sessions :
        /\ pc[s] = "Failed" /\ frame[s].cause = "parser fault"
        /\ frame[s].exc = "RecursionError"
        /\ pc[t] = "Failed" /\ frame[t].cause = "engine error"
        /\ pdf_bytes[s] = pdf_bytes[t]

\* C2: all or nothing: a call that failed hands back no bytes, whatever its
\* buffer holds; bytes are handed back only by a call whose engine returned
\* with error count 0
C2_AllOrNothing ==
    \A s \in Sessions :
        /\ frame[s].cause # "none" => pdf_bytes[s].is_none
        /\ ~pdf_bytes[s].is_none =>
              /\ stages[s] # <<>> /\ stages[s][Len(stages[s])] = "Succeeded"
              /\ pc[s] = "Succeeded" =>
                    ~frame[s].outcome.raised /\ frame[s].pisa_status = [err |-> 0]

\* a failed call whose buffer holds bytes the engine wrote, and None returned
C2_Witness ==
    \E s \in Sessions :
        /\ pc[s] = "Failed"
        /\ heap[frame[s].pdf_buffer].data # <<>>
        /\ pdf_bytes[s].is_none

StageRank(stage) ==
    CASE stage = "Parsing" -> 1
      [] stage = "Styling" -> 2
      [] stage = "Rendering" -> 3
      [] stage \in {"Succeeded", "Failed"} -> 4

\* C3: the stages of one conversion follow Idle -> Parsing -> Styling ->
\* Rendering -> Succeeded | Failed: each at most once and in this order, the
\* engine only after the parser and the styling went through without a fault,
\* and a parser fault straight to Failed
C3_LinearStages ==
    \A s \in Sessions :
        LET st == stages[s]
        IN /\ \A i, j \in 1..Len(st) : i < j => StageRank(st[i]) < StageRank(st[j])
           /\ st # <<>> => st[1] = "Parsing"
           /\ (\E i \in 1..Len(st) : st[i] = "Rendering") =>
                 /\ SubSeq(st, 1, 3) = <<"Parsing", "Styling", "Rendering">>
                 /\ pc[s] # "Idle" =>
                       /\ frame[s].parsed = "ok"
                       /\ frame[s].html_template = HtmlTemplate(frame[s].html_content)
           /\ (\E i \in 1..Len(st) : st[i] = "Succeeded") =>
                 st = <<"Parsing", "Styling", "Rendering", "Succeeded">>
           /\ frame[s].cause = "parser fault" =>
                 st \in {<<"Parsing">>, <<"Parsing", "Failed">>}

\* a conversion that went from Parsing straight to Failed
C3_Witness ==
    \E s \in Sessions :
        /\ pc[s] = "Failed" /\ frame[s].cause = "parser fault"
        /\ stages[s] = <<"Parsing", "Failed">>

\* C4: an empty or whitespace-only text is never converted: no call of
\* markdown_to_pdf_bytes holds one, and the click on one shows the warning only
C4_BlankNeverConverted ==
    \A s \in Sessions :
        /\ pc[s] # "Idle" => ~WhitespaceOnly(frame[s].markdown_string)
        /\ WhitespaceOnly(markdown_input[s]) =>
              /\ pc[s] = "Idle" /\ stages[s] = <<>> /\ logs[s] = <<>>
              /\ ui[s] \subseteq {"warning"}

\* Convert was clicked on a text of whitespace, and the warning is shown
C4_Witness ==
    \E s \in Sessions :
        /\ markdown_input[s] # <<>> /\ WhitespaceOnly(markdown_input[s])
        /\ ui[s] = {"warning"}

C6_WholeBufferReturned ==
    \A s \in Sessions :
        pc[s] = "Succeeded" =>
            /\ ~pdf_bytes[s].is_none
            /\ pdf_bytes[s].value = heap[frame[s].pdf_buffer].data
            /\ pdf_bytes[s].value = frame[s].outcome.written
            /\ heap[frame[s].pdf_buffer].pos = 0

\* a successful call whose engine wrote several bytes and did not seek back
C6_Witness ==
    \E s \in Sessions :
        /\ pc[s] = "Succeeded" /\ ~frame[s].outcome.rewind
        /\ Len(frame[s].outcome.written) >= 2
        /\ pdf_bytes[s].value = frame[s].outcome.written

\* what one call returns when nothing else runs: its own answers from the
\* parser and the engine, and a buffer nobody else touches
RunAlone(f) ==
    IF f.parsed # "ok" \/ f.outcome.raised \/ f.outcome.err # 0 THEN None
    ELSE Bytes(GetValue(PisaWrite(EmptyBuffer, f.outcome)))

\* C7: calls in flight together share no buffer and no document, and each
\* returns what it would have returned alone
C7_NoInterference ==
    \A s \in Sessions :
        /\ \A t \in Sessions \ {s} :
              pc[s] # "Idle" /\ pc[t] # "Idle" =>
                  frame[s].pdf_buffer # frame[t].pdf_buffer
        /\ frame[s].parsed = "ok" =>
              frame[s].html_content = Markdown(frame[s].markdown_string)
        /\ pc[s] \in {"Checking", "Except", "Succeeded", "Failed"}
              /\ frame[s].cause # "parser fault" =>
                 /\ frame[s].html_template.body = Markdown(frame[s].markdown_string)
                 /\ IsPrefix(frame[s].outcome.written, heap[frame[s].pdf_buffer].data)
        /\ pc[s] \in {"Succeeded", "Failed"} => pdf_bytes[s] = RunAlone(frame[s])

\* two calls that ran together, each over with bytes of its own
C7_Witness ==
    \E s, t \in Sessions :
        /\ pc[s] = "Succeeded" /\ pc[t] = "Succeeded"
        /\ frame[s].markdown_string # frame[t].markdown_string
        /\ pdf_bytes[s] # pdf_bytes[t]

\* C8: with the libraries' metadata fixed, a text converts to the same result
\* every time, whatever was converted in between, and the stylesheet wrapped
\* around the markup is the one stylesheet
C8_Idempotent ==
    /\ \A r1, r2 \in returned : r1.input = r2.input => r1.ret = r2.ret
    /\ \A s \in Sessions :
          frame[s].html_template # None =>
              frame[s].html_template.style = Stylesheet

\* a text converted to bytes once more after another text was converted
C8_Witness ==
    \E r \in returned :
        /\ r.again /\ ~r.ret.is_none
        /\ \E q \in returned : q.input # r.input /\ q.ret # r.ret

\* C9: a failed call has logged one error line by the time it returns, the
\* line of its kind of failure, and a call that logged its success has logged
\* no error
C9_FailuresLogged ==
    \A s \in Sessions :
        /\ pc[s] = "Failed" =>
              /\ Cardinality(ErrorLines(logs[s])) = 1
              /\ frame[s].cause = "engine error" =>
                    logs[s] = StatusErrorLog(frame[s].pisa_status.err)
              /\ frame[s].cause \in {"parser fault", "engine fault"} =>
                    logs[s] = ExceptionLog(frame[s].exc)
        /\ SuccessLogged(logs[s]) => ErrorLines(logs[s]) = {}

\* two failed calls, one by the engine's error status and one by a fault of
\* the engine, each with its error line
C9_Witness ==
    \E s, t \in Sessions :
        /\ pc[s] = "Failed" /\ frame[s].cause = "engine error"
        /\ pc[t] = "Failed" /\ frame[t].cause = "engine fault"
        /\ ErrorLines(logs[s]) # {} /\ ErrorLines(logs[t]) # {}

====
